---- MODULE Spec2Model ----
(***************************************************************************)
(* Model of the Express/pg CRUD API of api-render-postgres.               *)
(*                                                                         *)
(* The repository holds several snapshots of the same server.  The most   *)
(* complete one is the second program of src/index.js (lines 35-266); the *)
(* older snapshots are src/index.js lines 1-33, src/unnamed/part_000,     *)
(* part_001 and part_002.  Handlers that differ between snapshots are     *)
(* modelled as separate actions.                                          *)
(*                                                                         *)
(* Text is a sequence of one-character strings, so that trimming, the     *)
(* identifier pattern and the store's numeric input syntax are computed.  *)
(* JS numbers are held in tenths (15 is 1.5, 20 is 2).                     *)
(***************************************************************************)
EXTENDS Integers, Sequences, FiniteSets, TLC

\* ------------------------------------------------------------------ bounds
MaxPosts == 3        \* POST requests the clients send in one behaviour
MaxInFlight == 2     \* requests handled concurrently in ConcSpec
MaxLivePosts == 2    \* POST requests in one behaviour of LiveSpec

\* ------------------------------------------------------- JS request values
JsVal(t, n, s) == [t |-> t, n |-> n, s |-> s]
Undef == JsVal("undefined", 0, <<>>)
Null == JsVal("null", 0, <<>>)
Num(k) == JsVal("number", k, <<>>)
Str(s) == JsVal("string", 0, s)

\* !v
Falsy(v) ==
  \/ v.t \in {"undefined", "null"}
  \/ v.t = "string" /\ v.s = <<>>
  \/ v.t = "number" /\ v.n = 0

\* v !== undefined && v !== null
Supplied(v) == v.t # "undefined" /\ v.t # "null"

\* v ?? null
OrNull(v) == IF Supplied(v) THEN v ELSE Null

\* ------------------------------------------------------------ text helpers
Digit == {"0", "1", "2", "3", "4", "5", "6", "7", "8", "9"}
Lower == {"a", "b", "c", "d", "e", "f", "g", "h", "i", "j", "k", "l", "m",
          "n", "o", "p", "q", "r", "s", "t", "u", "v", "w", "x", "y", "z"}
Upper == {"A", "B", "C", "D", "E", "F", "G", "H", "I", "J", "K", "L", "M",
          "N", "O", "P", "Q", "R", "S", "T", "U", "V", "W", "X", "Y", "Z"}
Space == {" "}

DigitChar(d) ==
  CASE d = 0 -> "0" [] d = 1 -> "1" [] d = 2 -> "2" [] d = 3 -> "3"
    [] d = 4 -> "4" [] d = 5 -> "5" [] d = 6 -> "6" [] d = 7 -> "7"
    [] d = 8 -> "8" [] d = 9 -> "9"

DigitVal(c) == CHOOSE d \in 0..9 : DigitChar(d) = c

RECURSIVE TrimLeft(_)
TrimLeft(s) ==
  IF s # <<>> /\ Head(s) \in Space THEN TrimLeft(Tail(s)) ELSE s

RECURSIVE TrimRight(_)
TrimRight(s) ==
  IF s # <<>> /\ s[Len(s)] \in Space
    THEN TrimRight(SubSeq(s, 1, Len(s) - 1)) ELSE s

\* String.prototype.trim
Trim(s) == TrimRight(TrimLeft(s))

\* /^[a-zA-Z_][a-zA-Z0-9_]*$/.test(s)
IdentifierPattern(s) ==
  /\ s # <<>>
  /\ s[1] \in Lower \cup Upper \cup {"_"}
  /\ \A i \in 2..Len(s) : s[i] \in Lower \cup Upper \cup Digit \cup {"_"}

RECURSIVE NatText(_)
NatText(n) ==
  IF n < 10 THEN <<DigitChar(n)>>
  ELSE NatText(n \div 10) \o <<DigitChar(n % 10)>>

\* Number.prototype.toString for a non-negative number held in tenths
NumberToString(k) ==
  IF k % 10 = 0 THEN NatText(k \div 10)
  ELSE NatText(k \div 10) \o <<".", DigitChar(k % 10)>>

IsDigits(s) == s # <<>> /\ \A i \in 1..Len(s) : s[i] \in Digit

RECURSIVE DigitsVal(_)
DigitsVal(s) ==
  IF s = <<>> THEN 0
  ELSE 10 * DigitsVal(SubSeq(s, 1, Len(s) - 1)) + DigitVal(s[Len(s)])

\* -------------------------------------------------- driver and store values
SqlVal(t, n, s) == [t |-> t, n |-> n, s |-> s]
SqlNull == SqlVal("NULL", 0, <<>>)
SqlText(s) == SqlVal("text", 0, s)
SqlInt(n) == SqlVal("integer", n, <<>>)
SqlNumeric(k) == SqlVal("numeric", k, <<>>)
SqlBad == SqlVal("error", 0, <<>>)

\* pg's prepareValue: null and undefined bind as NULL, numbers by toString,
\* strings as they are.
PrepareValue(v) ==
  CASE v.t \in {"undefined", "null"} -> SqlNull
    [] v.t = "number" -> SqlText(NumberToString(v.n))
    [] v.t = "string" -> SqlText(v.s)

\* F applied to the value of x (x is evaluated once, before F)
With(x, F(_)) == CHOOSE r \in {F(y) : y \in {x}} : TRUE

\* text column: any bound text is stored as it is
TextIn(p) == p

\* integer column: optional surrounding blanks, then digits only
IntegerText(u) == IF IsDigits(u) THEN SqlInt(DigitsVal(u)) ELSE SqlBad
IntegerIn(p) == IF p = SqlNull THEN SqlNull ELSE With(Trim(p.s), IntegerText)

\* numeric column: digits, optionally a point and one digit (tenths)
NumericText(u) ==
  LET n == Len(u)
  IN IF IsDigits(u) THEN SqlNumeric(10 * DigitsVal(u))
     ELSE IF n >= 3 /\ u[n - 1] = "." /\ u[n] \in Digit
             /\ IsDigits(SubSeq(u, 1, n - 2))
       THEN SqlNumeric(10 * DigitsVal(SubSeq(u, 1, n - 2)) + DigitVal(u[n]))
       ELSE SqlBad
NumericIn(p) == IF p = SqlNull THEN SqlNull ELSE With(Trim(p.s), NumericText)

\* ------------------------------------------------------------- the schema
\* Column types of the store (the DDL is not part of the sources).
PrecioIn(p) == NumericIn(p)
StockIn(p) == IntegerIn(p)
IdCategoriaIn(p) == IntegerIn(p)
IdClienteIn(p) == IntegerIn(p)
\* clientes.email carries a UNIQUE constraint
EmailIsUnique == TRUE

ErrInteger == "invalid input syntax for type integer"
ErrNumeric == "invalid input syntax for type numeric"
ErrNotNull == "null value violates not-null constraint"
ErrUnique == "duplicate key value violates unique constraint"
ErrConnection == "Connection terminated unexpectedly"

\* information_schema.columns of schema public, in ordinal position
Productos == <<"p", "r", "o", "d", "u", "c", "t", "o", "s">>
Clientes == <<"c", "l", "i", "e", "n", "t", "e", "s">>
Ordenes == <<"o", "r", "d", "e", "n", "e", "s">>
CatalogColumns(t) ==
  CASE t = Productos -> <<"id_producto", "nombre", "descripcion", "precio",
                          "stock", "id_categoria">>
    [] t = Clientes -> <<"id_cliente", "nombre", "email", "direccion",
                         "telefono">>
    [] t = Ordenes -> <<"id_orden", "tipo_orden", "id_cliente">>
    [] OTHER -> <<>>
CatalogTables == <<"clientes", "ordenes", "productos">>

\* --------------------------------------------------------- store statements
\* Every statement returns [err, out, tab, seq]: the error message ("" when
\* the statement succeeded), the rows it returns, and the table and sequence
\* after it.  A value the column type rejects fails the statement before the
\* sequence is read; a constraint violation fails it after.
StmtResult(err, out, tab, seq) ==
  [err |-> err, out |-> out, tab |-> tab, seq |-> seq]

\* the row INSERT INTO productos builds from its five bound values
ProductoRow(seq, v) ==
  [id_producto |-> seq + 1,
   nombre |-> TextIn(PrepareValue(v[1])),
   descripcion |-> TextIn(PrepareValue(v[2])),
   precio |-> PrecioIn(PrepareValue(v[3])),
   stock |-> StockIn(PrepareValue(v[4])),
   id_categoria |-> IdCategoriaIn(PrepareValue(v[5]))]

\* ... and what the store does with it
StoreProducto(tab, seq, row) ==
  CASE row.precio = SqlBad -> StmtResult(ErrNumeric, <<>>, tab, seq)
    [] row.precio # SqlBad /\ SqlBad \in {row.stock, row.id_categoria} ->
         StmtResult(ErrInteger, <<>>, tab, seq)
    [] SqlBad \notin {row.precio, row.stock, row.id_categoria}
       /\ SqlNull \in {row.nombre, row.precio, row.stock} ->
         StmtResult(ErrNotNull, <<>>, tab, seq + 1)
    [] OTHER -> StmtResult("", <<row>>, tab \cup {row}, seq + 1)

\* INSERT INTO productos (...) VALUES ($1..$5) RETURNING *
InsertProducto(tab, seq, v) ==
  With(ProductoRow(seq, v), LAMBDA row : StoreProducto(tab, seq, row))

\* InsertCliente as an upsert: a row with the same email is replaced
InsertCliente_upsert(tab, seq, v) ==
  LET p == [i \in 1..4 |-> PrepareValue(v[i])]
      row == [id_cliente |-> seq + 1,
              nombre |-> TextIn(p[1]),
              email |-> TextIn(p[2]),
              direccion |-> TextIn(p[3]),
              telefono |-> TextIn(p[4])]
      same == {c \in tab : row.email # SqlNull /\ c.email = row.email}
  IN IF row.nombre = SqlNull THEN StmtResult(ErrNotNull, <<>>, tab, seq + 1)
     ELSE StmtResult("", <<row>>, (tab \ same) \cup {row}, seq + 1)

\* INSERT INTO clientes (...) VALUES ($1..$4) RETURNING *
InsertCliente(tab, seq, v) ==
  LET p == [i \in 1..4 |-> PrepareValue(v[i])]
      row == [id_cliente |-> seq + 1,
              nombre |-> TextIn(p[1]),
              email |-> TextIn(p[2]),
              direccion |-> TextIn(p[3]),
              telefono |-> TextIn(p[4])]
  IN CASE row.nombre = SqlNull -> StmtResult(ErrNotNull, <<>>, tab, seq + 1)
       [] row.nombre # SqlNull /\ EmailIsUnique /\ row.email # SqlNull
          /\ (\E c \in tab : c.email = row.email) ->
            StmtResult(ErrUnique, <<>>, tab, seq + 1)
       [] OTHER -> StmtResult("", <<row>>, tab \cup {row}, seq + 1)

\* SELECT 1 FROM clientes WHERE id_cliente = $1
SelectCliente(tab, id) ==
  LET k == IdClienteIn(PrepareValue(id))
  IN IF k = SqlBad THEN StmtResult(ErrInteger, <<>>, tab, 0)
     ELSE StmtResult("", IF \E c \in tab : SqlInt(c.id_cliente) = k
                         THEN <<1>> ELSE <<>>, tab, 0)

\* INSERT INTO ordenes (tipo_orden, id_cliente) VALUES ($1, $2) RETURNING *
InsertOrden(tab, seq, v) ==
  LET p == [i \in 1..2 |-> PrepareValue(v[i])]
      row == [id_orden |-> seq + 1,
              tipo_orden |-> TextIn(p[1]),
              id_cliente |-> IdClienteIn(p[2])]
  IN CASE row.id_cliente = SqlBad -> StmtResult(ErrInteger, <<>>, tab, seq)
       [] row.id_cliente # SqlBad /\ row.tipo_orden = SqlNull ->
            StmtResult(ErrNotNull, <<>>, tab, seq + 1)
       [] OTHER -> StmtResult("", <<row>>, tab \cup {row}, seq + 1)

\* the orders a (finite) table can be returned in
Orderings(tab) ==
  {sq \in [1..Cardinality(tab) -> tab] : \A r \in tab : \E i \in DOMAIN sq : sq[i] = r}

\* SELECT * FROM productos ORDER BY id_producto (and ORDER BY 1)
OrderByIdProducto(tab) ==
  CHOOSE sq \in Orderings(tab) :
    \A i, j \in DOMAIN sq : i < j => sq[i].id_producto < sq[j].id_producto
OrderByIdCliente(tab) ==
  CHOOSE sq \in Orderings(tab) :
    \A i, j \in DOMAIN sq : i < j => sq[i].id_cliente < sq[j].id_cliente
OrderByIdOrden(tab) ==
  CHOOSE sq \in Orderings(tab) :
    \A i, j \in DOMAIN sq : i < j => sq[i].id_orden < sq[j].id_orden

\* -------------------------------------------------------------- the state
VARIABLES
  productos, clientes, ordenes,   \* the three tables, as sets of rows
  seqProducto, seqCliente, seqOrden,  \* last value of each id sequence
  slots,                          \* the requests being handled
  posts,                          \* POST requests received so far
  seen                            \* the last product listing a client received

tables == <<productos, clientes, ordenes, seqProducto, seqCliente, seqOrden>>
vars == <<productos, clientes, ordenes, seqProducto, seqCliente, seqOrden,
          slots, posts, seen>>

Slots == 1..MaxInFlight

\* req.body after express.json(): absent keys read as undefined
EmptyBody ==
  [nombre |-> Undef, descripcion |-> Undef, precio |-> Undef, stock |-> Undef,
   id_categoria |-> Undef, email |-> Undef, direccion |-> Undef,
   telefono |-> Undef, tipo_orden |-> Undef, id_cliente |-> Undef]

NoResp == [status |-> 0, error |-> "", rows |-> <<>>]

\* A request being handled: the handler h and where it stands (pc), the
\* request's body and :tabla parameter, the table name bound to the catalog
\* query (bind), the response sent, and the history of the handling: store
\* statements issued (calls), responses sent (sent), the message of the
\* statement that failed (fail), rows inserted (added).
IdleSlot ==
  [pc |-> "idle", h |-> "", body |-> EmptyBody, tabla |-> <<>>, bind |-> <<>>,
   resp |-> NoResp, calls |-> 0, sent |-> 0, fail |-> "", added |-> 0]

\* What a client holds of its last GET /api/productos: the rows in the order
\* received and the table they were read from.
NotSeen == [valid |-> FALSE, tab |-> {}, rows |-> <<>>]

Init ==
  /\ productos = {} /\ clientes = {} /\ ordenes = {}
  /\ seqProducto = 0 /\ seqCliente = 0 /\ seqOrden = 0
  /\ slots = [s \in Slots |-> IdleSlot]
  /\ posts = 0
  /\ seen = NotSeen

\* ------------------------------------------------------- handler fragments
Received(h, body, tabla) ==
  [IdleSlot EXCEPT !.pc = "run", !.h = h, !.body = body, !.tabla = tabla]

\* res.status(status).json(...): the response is sent and the handler returns
Respond(sl, status, error, rows) ==
  [sl EXCEPT !.pc = "done", !.sent = @ + 1,
             !.resp = [status |-> status, error |-> error, rows |-> rows]]

\* await pool.query(...): the statement is issued, the handler is suspended
Await(sl, pc) == [sl EXCEPT !.pc = pc, !.calls = @ + 1]

\* the awaited promise settles: rejected with err, or fulfilled (err = "")
Settled(sl, err) == IF err = "" THEN sl ELSE [sl EXCEPT !.fail = err]

\* HandleError with the error logged and no response sent
HandleError_silent(sl, msg) == [sl EXCEPT !.pc = "done"]

\* catch (e) { res.status(500).json({ error: e.message }) } and handleError
HandleError(sl, msg) == Respond(sl, 500, msg, <<>>)

\* ------------------------------------------------------- request payloads
A == <<"a">>
ProductoBase ==
  [EmptyBody EXCEPT !.nombre = Str(A), !.precio = Num(15), !.stock = Num(20)]
ProductoBodies ==
  {ProductoBase}
  \cup {[ProductoBase EXCEPT !.nombre = v] :
          v \in {Undef, Str(<<>>), Str(<<" ", "a">>)}}
  \cup {[ProductoBase EXCEPT !.precio = v] :
          v \in {Undef, Null, Str(A), Str(<<"2">>)}}
  \cup {[ProductoBase EXCEPT !.stock = v] : v \in {Undef, Num(15)}}
  \cup {[ProductoBase EXCEPT !.descripcion = Str(<<"b", " ">>),
                             !.id_categoria = Num(10)]}

ClienteBase == [EmptyBody EXCEPT !.nombre = Str(A)]
ClienteBodies ==
  {ClienteBase, [ClienteBase EXCEPT !.nombre = Undef]}
  \cup {[ClienteBase EXCEPT !.email = v] :
          v \in {Null, Str(<<"x">>), Str(<<"y">>)}}

OrdenBase == [EmptyBody EXCEPT !.tipo_orden = Str(<<"t">>)]
OrdenBodies ==
  {OrdenBase, [OrdenBase EXCEPT !.tipo_orden = Undef]}
  \cup {[OrdenBase EXCEPT !.id_cliente = v] :
          v \in {Null, Num(10), Num(20), Str(<<"1">>), Str(A)}}

TablaParams ==
  {Ordenes, <<"n", "o">>, <<"a", ";", "b">>, Ordenes \o <<" ">>, <<"1", "a">>}

Pending(s) == slots[s].pc \in {"select", "check", "insert", "catalog"}
At(s, h, pc) == slots[s].h = h /\ slots[s].pc = pc
Idle(s) == slots[s].pc = "idle"
Set(s, sl) == slots' = [slots EXCEPT ![s] = sl]

\* ------------------------------------------------------------ GET handlers
\* app.get("/")
GetRoot(s) ==
  /\ Idle(s)
  /\ Set(s, Respond(Received("root", EmptyBody, <<>>), 200, "",
                    <<[ok |-> TRUE, mensaje |-> "API funcionando en Render"]>>))
  /\ UNCHANGED <<tables, posts, seen>>

\* app.get("/api/productos") with ORDER BY id_producto
GetProductos(s) ==
  /\ Idle(s)
  /\ Set(s, Await(Received("getProductos", EmptyBody, <<>>), "select"))
  /\ UNCHANGED <<tables, posts, seen>>

GetProductosDone(s) ==
  /\ At(s, "getProductos", "select")
  /\ Set(s, Respond(slots[s], 200, "", OrderByIdProducto(productos)))
  /\ UNCHANGED <<tables, posts, seen>>

\* app.get('/api/productos') of the older snapshots: SELECT * FROM productos
\* with no ORDER BY, so the store returns the rows in an order of its choosing
GetProductosUnordered(s) ==
  /\ Idle(s)
  /\ Set(s, Await(Received("getProductosUnordered", EmptyBody, <<>>), "select"))
  /\ UNCHANGED <<tables, posts, seen>>

GetProductosUnorderedDone(s) ==
  /\ At(s, "getProductosUnordered", "select")
  /\ \E sq \in Orderings(productos) : Set(s, Respond(slots[s], 200, "", sq))
  /\ UNCHANGED <<tables, posts, seen>>

\* app.get("/api/clientes")
GetClientes(s) ==
  /\ Idle(s)
  /\ Set(s, Await(Received("getClientes", EmptyBody, <<>>), "select"))
  /\ UNCHANGED <<tables, posts, seen>>

GetClientesDone(s) ==
  /\ At(s, "getClientes", "select")
  /\ Set(s, Respond(slots[s], 200, "", OrderByIdCliente(clientes)))
  /\ UNCHANGED <<tables, posts, seen>>

\* app.get("/api/ordenes")
GetOrdenes(s) ==
  /\ Idle(s)
  /\ Set(s, Await(Received("getOrdenes", EmptyBody, <<>>), "select"))
  /\ UNCHANGED <<tables, posts, seen>>

GetOrdenesDone(s) ==
  /\ At(s, "getOrdenes", "select")
  /\ Set(s, Respond(slots[s], 200, "", OrderByIdOrden(ordenes)))
  /\ UNCHANGED <<tables, posts, seen>>

\* app.get("/api/check-tables")
CheckTables(s) ==
  /\ Idle(s)
  /\ Set(s, Await(Received("checkTables", EmptyBody, <<>>), "catalog"))
  /\ UNCHANGED <<tables, posts, seen>>

CheckTablesDone(s) ==
  /\ At(s, "checkTables", "catalog")
  /\ Set(s, Respond(slots[s], 200, "", CatalogTables))
  /\ UNCHANGED <<tables, posts, seen>>

\* app.get("/api/check-columns/:tabla") of src/index.js: the parameter is
\* bound as it came
CheckColumns(s, tabla) ==
  /\ Idle(s)
  /\ Set(s, Await([Received("checkColumns", EmptyBody, tabla)
                       EXCEPT !.bind = tabla], "catalog"))
  /\ UNCHANGED <<tables, posts, seen>>

\* the same route in src/unnamed/part_000: trimmed, then checked against the
\* identifier pattern before the catalog is queried
ValidTabla(t) == IdentifierPattern(t)
CheckColumnsValidated(s, tabla) ==
  /\ Idle(s)
  /\ LET t == Trim(tabla)
         sl == [Received("checkColumnsValidated", EmptyBody, tabla)
                 EXCEPT !.bind = t]
     IN IF ~ValidTabla(t)
          THEN Set(s, Respond(sl, 400, "Nombre de tabla invalido", <<>>))
          ELSE Set(s, Await(sl, "catalog"))
  /\ UNCHANGED <<tables, posts, seen>>

\* result.rows.length === 0 -> 404, else the rows
ColumnsResponse(sl, rows) ==
  IF Len(rows) = 0
    THEN Respond(sl, 404, "Tabla no existe o no tiene columnas", <<>>)
    ELSE Respond(sl, 200, "", rows)

CheckColumnsDone(s) ==
  /\ slots[s].h \in {"checkColumns", "checkColumnsValidated"}
  /\ slots[s].pc = "catalog"
  /\ Set(s, ColumnsResponse(slots[s], CatalogColumns(slots[s].bind)))
  /\ UNCHANGED <<tables, posts, seen>>

\* ----------------------------------------------------------- POST handlers
\* AfterInsert with a catch block that answers 201
AfterInsert_created(sl, r, before) ==
  Respond([sl EXCEPT !.added = @ + Cardinality(r.tab \ before)], 201, "", r.out)

\* r = await pool.query(q, values); res.status(201).json(r.rows[0]), or the
\* catch block when the statement failed.  r is the statement's result and
\* before the table it ran against.
AfterInsert(sl, r, before) ==
  IF r.err = ""
    THEN Respond([sl EXCEPT !.added = @ + Cardinality(r.tab \ before)],
                 201, "", r.out)
    ELSE HandleError(sl, r.err)

\* !nombre || precio === undefined || stock === undefined
ProductoMissing(b) == Falsy(b.nombre) \/ b.precio = Undef \/ b.stock = Undef

ProductoValues(b) ==
  <<b.nombre, OrNull(b.descripcion), b.precio, b.stock, OrNull(b.id_categoria)>>

\* app.post("/api/productos"), up to the await
PostProductos(s, b) ==
  /\ Idle(s) /\ posts < MaxPosts
  /\ posts' = posts + 1
  /\ LET sl == Received("postProductos", b, <<>>)
     IN IF ProductoMissing(b)
          THEN Set(s, Respond(sl, 400,
                     "Faltan campos requeridos: nombre, precio, stock", <<>>))
          ELSE Set(s, Await(sl, "insert"))
  /\ UNCHANGED <<tables, seen>>

\* ... and from the await on
PostProductosInserted(s) ==
  /\ At(s, "postProductos", "insert")
  /\ \E r \in {InsertProducto(productos, seqProducto,
                              ProductoValues(slots[s].body))} :
        /\ productos' = r.tab
        /\ seqProducto' = r.seq
        /\ Set(s, AfterInsert(Settled(slots[s], r.err), r, productos))
  /\ UNCHANGED <<clientes, ordenes, seqCliente, seqOrden, posts, seen>>

\* !nombre
ClienteMissing(b) == Falsy(b.nombre)

ClienteValues(b) ==
  <<b.nombre, OrNull(b.email), OrNull(b.direccion), OrNull(b.telefono)>>

\* app.post("/api/clientes"), up to the await
PostClientes(s, b) ==
  /\ Idle(s) /\ posts < MaxPosts
  /\ posts' = posts + 1
  /\ LET sl == Received("postClientes", b, <<>>)
     IN IF ClienteMissing(b)
          THEN Set(s, Respond(sl, 400, "Falta campo requerido: nombre", <<>>))
          ELSE Set(s, Await(sl, "insert"))
  /\ UNCHANGED <<tables, seen>>

PostClientesInserted(s) ==
  /\ At(s, "postClientes", "insert")
  /\ \E r \in {InsertCliente(clientes, seqCliente,
                             ClienteValues(slots[s].body))} :
        /\ clientes' = r.tab
        /\ seqCliente' = r.seq
        /\ Set(s, AfterInsert(Settled(slots[s], r.err), r, clientes))
  /\ UNCHANGED <<productos, ordenes, seqProducto, seqOrden, posts, seen>>

\* !tipo_orden
OrdenMissing(b) == Falsy(b.tipo_orden)

\* id_cliente !== undefined && id_cliente !== null
OrdenNeedsCheck(b) == Supplied(b.id_cliente)

\* ClienteAbsent with the comparison never true
ClienteAbsent_never(check) == FALSE

\* check.rowCount === 0
ClienteAbsent(check) == Len(check.out) = 0

OrdenValues(b) == <<b.tipo_orden, OrNull(b.id_cliente)>>

\* app.post("/api/ordenes"), up to the first await
PostOrdenes(s, b) ==
  /\ Idle(s) /\ posts < MaxPosts
  /\ posts' = posts + 1
  /\ LET sl == Received("postOrdenes", b, <<>>)
     IN IF OrdenMissing(b)
          THEN Set(s, Respond(sl, 400, "Falta campo requerido: tipo_orden", <<>>))
          ELSE IF OrdenNeedsCheck(b)
            THEN Set(s, Await(sl, "check"))
            ELSE Set(s, Await(sl, "insert"))
  /\ UNCHANGED <<tables, seen>>

\* what the handler does with the result of the existence check
AfterCheck(sl, check) ==
  IF check.err # "" THEN HandleError(sl, check.err)
  ELSE IF ClienteAbsent(check)
    THEN Respond(sl, 400, "id_cliente no existe en clientes (violacion de FK)",
                 <<>>)
    ELSE Await(sl, "insert")

\* ... from the existence check to the second await
PostOrdenesChecked(s) ==
  /\ At(s, "postOrdenes", "check")
  /\ \E check \in {SelectCliente(clientes, slots[s].body.id_cliente)} :
        Set(s, AfterCheck(Settled(slots[s], check.err), check))
  /\ UNCHANGED <<tables, posts, seen>>

\* ... and from the insert on
PostOrdenesInserted(s) ==
  /\ At(s, "postOrdenes", "insert")
  /\ \E r \in {InsertOrden(ordenes, seqOrden, OrdenValues(slots[s].body))} :
        /\ ordenes' = r.tab
        /\ seqOrden' = r.seq
        /\ Set(s, AfterInsert(Settled(slots[s], r.err), r, ordenes))
  /\ UNCHANGED <<productos, clientes, seqProducto, seqCliente, posts, seen>>

\* ------------------------------------------------------------ environment
\* The statement a handler awaits is rejected by the driver (connection lost,
\* timeout): the table is untouched and the handler's catch block runs.
StoreFault(s) ==
  /\ Pending(s)
  /\ Set(s, HandleError(Settled(slots[s], ErrConnection), ErrConnection))
  /\ UNCHANGED <<tables, posts, seen>>

\* The response has reached the client; the slot serves the next request.
Deliver(s) ==
  /\ slots[s].pc = "done"
  /\ Set(s, IdleSlot)
  /\ seen' = IF slots[s].h \in {"getProductos", "getProductosUnordered"}
                 /\ slots[s].resp.status = 200
               THEN [valid |-> TRUE, tab |-> productos, rows |-> slots[s].resp.rows]
               ELSE seen
  /\ UNCHANGED <<tables, posts>>

Quiet == \A s \in Slots : Idle(s)

\* a request arrives at slot s
Arrive(s) ==
  \/ GetRoot(s)
  \/ GetProductos(s)
  \/ GetProductosUnordered(s)
  \/ GetClientes(s)
  \/ GetOrdenes(s)
  \/ CheckTables(s)
  \/ \E t \in TablaParams : CheckColumns(s, t)
  \/ \E t \in TablaParams : CheckColumnsValidated(s, t)
  \/ \E b \in ProductoBodies : PostProductos(s, b)
  \/ \E b \in ClienteBodies : PostClientes(s, b)
  \/ \E b \in OrdenBodies : PostOrdenes(s, b)

\* the store answers the statement slot s awaits and the handler resumes
Resume(s) ==
  \/ GetProductosDone(s)
  \/ GetProductosUnorderedDone(s)
  \/ GetClientesDone(s)
  \/ GetOrdenesDone(s)
  \/ CheckTablesDone(s)
  \/ CheckColumnsDone(s)
  \/ PostProductosInserted(s)
  \/ PostClientesInserted(s)
  \/ PostOrdenesChecked(s)
  \/ PostOrdenesInserted(s)

\* Requests one at a time against a store that answers every statement.
Next ==
  \/ Quiet /\ Arrive(1)
  \/ Resume(1)
  \/ Deliver(1)

Spec == Init /\ [][Next]_vars

\* Requests one at a time against a store that may fail any statement.
FaultNext ==
  \/ Quiet /\ Arrive(1)
  \/ Resume(1)
  \/ StoreFault(1)
  \/ Deliver(1)

FaultSpec == Init /\ [][FaultNext]_vars

\* The same with fairness: whatever a handler awaits is eventually answered
\* or rejected (the driver settles every promise), and a response sent is
\* eventually delivered.
LiveNext == FaultNext /\ posts' <= MaxLivePosts

LiveSpec ==
  /\ Init /\ [][LiveNext]_vars
  /\ WF_vars(Resume(1) \/ StoreFault(1))
  /\ WF_vars(Deliver(1))

\* Concurrent client and order requests against a store that may fail.
ConcNext ==
  \E s \in Slots :
    \/ \E b \in ClienteBodies : PostClientes(s, b)
    \/ \E b \in OrdenBodies : PostOrdenes(s, b)
    \/ PostClientesInserted(s)
    \/ PostOrdenesChecked(s)
    \/ PostOrdenesInserted(s)
    \/ StoreFault(s)
    \/ Deliver(s)

ConcSpec == Init /\ [][ConcNext]_vars

\* ------------------------------------------------------------------ claims
Done(s, h) == slots[s].pc = "done" /\ slots[s].h = h
ClientError(status) == status \in 400..499
FirstRow(resp) == resp.rows[1]

\* what the store would make of a submitted value in a column of each type
AsText(v) == IF Supplied(v) THEN SqlText(v.s) ELSE SqlNull
AsTrimmedText(v) == IF Supplied(v) THEN SqlText(Trim(v.s)) ELSE SqlNull
AsNumeric(v) == NumericIn(PrepareValue(v))
AsInteger(v) == IntegerIn(PrepareValue(v))
IsNumeric(v) == Supplied(v) /\ AsNumeric(v) # SqlBad
IsInteger(v) == Supplied(v) /\ AsInteger(v) # SqlBad

\* C1: a POST /api/productos whose nombre, precio or stock is missing, or
\* whose precio is not numeric, or whose stock is not an integer, is answered
\* with a 400-class status, issues no INSERT and adds no row.
C1_BadProductRejected ==
  \A s \in Slots :
    Done(s, "postProductos")
    /\ (\/ slots[s].body.nombre \in {Undef, Str(<<>>)}
        \/ slots[s].body.precio = Undef
        \/ slots[s].body.stock = Undef
        \/ Supplied(slots[s].body.precio) /\ ~IsNumeric(slots[s].body.precio)
        \/ Supplied(slots[s].body.stock) /\ ~IsInteger(slots[s].body.stock))
    => /\ ClientError(slots[s].resp.status)
       /\ slots[s].calls = 0
       /\ slots[s].added = 0

NamesCliente(v) == \E c \in clientes : SqlInt(c.id_cliente) = AsInteger(v)

\* C2: a POST /api/ordenes with a non-empty tipo_orden: an id_cliente naming
\* no client row gets a 400/404-class response and no row; an omitted
\* id_cliente gets 201 and a null client reference; an id_cliente naming a
\* client gets 201 and the returned order references it.
C2_OrderClientReference ==
  \A s \in Slots :
    Done(s, "postOrdenes") /\ ~Falsy(slots[s].body.tipo_orden)
    => LET id == slots[s].body.id_cliente
           resp == slots[s].resp
       IN CASE ~Supplied(id) ->
                 resp.status = 201 /\ FirstRow(resp).id_cliente = SqlNull
            [] Supplied(id) /\ NamesCliente(id) ->
                 resp.status = 201 /\ FirstRow(resp).id_cliente = AsInteger(id)
            [] Supplied(id) /\ ~NamesCliente(id) ->
                 ClientError(resp.status) /\ slots[s].added = 0

EmailTaken(b) ==
  Supplied(b.email) /\ \E c \in clientes : c.email = AsText(b.email)

\* C3: of the POST /api/clientes requests that carry the same non-null email,
\* the first to reach the store is answered 201 and every later one 500 with
\* the store's uniqueness-violation message; the rows already in clientes
\* stay as they are and no second row with that email appears.
C3_DuplicateEmail ==
  /\ [](\A c, d \in clientes :
          c.email = d.email /\ c.email # SqlNull => c = d)
  /\ [][\A s \in Slots :
          At(s, "postClientes", "insert") /\ slots'[s].pc = "done"
          => LET b == slots[s].body
                 resp == slots'[s].resp
             IN IF EmailTaken(b)
                  THEN /\ resp.status = 500 /\ resp.error = ErrUnique
                       /\ clientes' = clientes
                  ELSE /\ resp.status = 201
                       /\ FirstRow(resp).email = AsText(b.email)
                       /\ clientes' = clientes \cup {FirstRow(resp)}
                       /\ FirstRow(resp) \notin clientes]_vars

C3_Witness ==
  \E s \in Slots :
    /\ Done(s, "postClientes")
    /\ slots[s].resp.status = 500 /\ slots[s].resp.error = ErrUnique
    /\ \E c \in clientes : c.email = AsText(slots[s].body.email)

\* C4: GET /api/check-columns/:tabla answers 404 when the name matches the
\* identifier pattern and the catalog has no column for it, and 400 without
\* issuing the catalog query when the name violates the pattern.
C4_CheckColumnsStatus ==
  \A s \in Slots :
    slots[s].pc = "done"
    /\ slots[s].h \in {"checkColumns", "checkColumnsValidated"}
    => IF IdentifierPattern(slots[s].tabla)
         THEN CatalogColumns(slots[s].tabla) = <<>> => slots[s].resp.status = 404
         ELSE slots[s].resp.status = 400 /\ slots[s].calls = 0

WellFormedProducto(b) ==
  /\ b.nombre.t = "string" /\ b.nombre.s # <<>>
  /\ IsNumeric(b.precio)
  /\ IsInteger(b.stock)

\* C5: a well-formed POST /api/productos (non-empty nombre, numeric precio,
\* integer stock) is answered 201 with a row whose fields are the submitted
\* values trimmed and coerced, descripcion and id_categoria null when
\* omitted, and whose id_producto is greater than every id assigned before.
C5_ProductCreated ==
  \A s \in Slots :
    Done(s, "postProductos") /\ WellFormedProducto(slots[s].body)
    => LET b == slots[s].body
           resp == slots[s].resp
       IN /\ resp.status = 201
          /\ FirstRow(resp).nombre = AsTrimmedText(b.nombre)
          /\ FirstRow(resp).descripcion = AsTrimmedText(b.descripcion)
          /\ FirstRow(resp).precio = AsNumeric(b.precio)
          /\ FirstRow(resp).stock = AsInteger(b.stock)
          /\ FirstRow(resp).id_categoria = AsInteger(b.id_categoria)
          /\ \A r \in productos \ {FirstRow(resp)} :
               r.id_producto < FirstRow(resp).id_producto

\* C6: two successive GET /api/productos with no write to productos between
\* them return the same rows in the same order, the order of the primary key.
C6_RepeatableListing ==
  \A s \in Slots :
    slots[s].pc = "done"
    /\ slots[s].h \in {"getProductos", "getProductosUnordered"}
    /\ slots[s].resp.status = 200
    => /\ slots[s].resp.rows \in Orderings(productos)
       /\ \A i, j \in DOMAIN slots[s].resp.rows :
            i < j => slots[s].resp.rows[i].id_producto
                       < slots[s].resp.rows[j].id_producto
       /\ seen.valid /\ seen.tab = productos => slots[s].resp.rows = seen.rows

\* C7: a POST /api/ordenes with a non-empty tipo_orden and a supplied
\* id_cliente that is no integer is answered with a 400-class status, not a
\* 500, and inserts no row.
C7_BadClientIdRejected ==
  \A s \in Slots :
    Done(s, "postOrdenes") /\ ~Falsy(slots[s].body.tipo_orden)
    /\ Supplied(slots[s].body.id_cliente) /\ ~IsInteger(slots[s].body.id_cliente)
    => ClientError(slots[s].resp.status) /\ slots[s].added = 0

\* C8: every request gets exactly one response; when a store statement
\* fails the handler issues no further statement, does not retry, and
\* answers once, with status 500 and the message of the error.
C8_OneResponse ==
  /\ [](\A s \in Slots :
          /\ slots[s].sent <= 1
          /\ slots[s].pc = "done" <=> slots[s].sent = 1
          /\ slots[s].fail # ""
             => /\ slots[s].pc = "done"
                /\ slots[s].resp.status = 500
                /\ slots[s].resp.error = slots[s].fail)
  /\ [][\A s \in Slots :
          Pending(s) /\ slots'[s].fail # ""
          => slots'[s].calls = slots[s].calls]_vars
  /\ \A s \in Slots : Pending(s) ~> slots[s].pc = "done"

C8_Witness ==
  \E s \in Slots :
    /\ Done(s, "postOrdenes")
    /\ Supplied(slots[s].body.id_cliente)
    /\ slots[s].fail = ErrConnection
    /\ slots[s].calls = 1
    /\ slots[s].resp.status = 500

\* C9: whatever the interleaving of concurrent POST /api/clientes and
\* POST /api/ordenes, every row of ordenes has a null id_cliente or the
\* id_cliente of a row of clientes.
C9_ReferentialIntegrity ==
  \A o \in ordenes :
    o.id_cliente = SqlNull
    \/ \E c \in clientes : SqlInt(c.id_cliente) = o.id_cliente

C9_Witness ==
  \E s, t \in Slots :
    /\ Done(s, "postOrdenes")
    /\ slots[s].resp.status = 201
    /\ FirstRow(slots[s].resp).id_cliente # SqlNull
    /\ FirstRow(slots[s].resp) \in ordenes
    /\ At(t, "postClientes", "insert")

Gets ==
  {"root", "getProductos", "getProductosUnordered", "getClientes",
   "getOrdenes", "checkTables", "checkColumns", "checkColumnsValidated"}

\* C10: no handler updates or deletes a row: every GET handler leaves the
\* three tables as they are, every POST handler leaves the other two tables
\* as they are and adds at most one row to its own.
C10_AppendOnly ==
  [][/\ productos \subseteq productos'
     /\ clientes \subseteq clientes'
     /\ ordenes \subseteq ordenes'
     /\ \A s \in Slots :
          slots'[s] # slots[s]
          => LET h == IF Idle(s) THEN slots'[s].h ELSE slots[s].h
             IN /\ h \in Gets
                   => <<productos, clientes, ordenes>>' = <<productos, clientes, ordenes>>
                /\ h = "postProductos"
                   => <<clientes, ordenes>>' = <<clientes, ordenes>>
                /\ h = "postClientes"
                   => <<productos, ordenes>>' = <<productos, ordenes>>
                /\ h = "postOrdenes"
                   => <<productos, clientes>>' = <<productos, clientes>>
                /\ slots'[s].added <= 1
                /\ Cardinality(productos') + Cardinality(clientes')
                     + Cardinality(ordenes')
                   <= Cardinality(productos) + Cardinality(clientes)
                        + Cardinality(ordenes) + 1]_vars

C10_Witness ==
  /\ productos # {} /\ clientes # {} /\ ordenes # {}
  /\ \E s \in Slots :
       /\ Done(s, "getClientes")
       /\ slots[s].resp.status = 200
       /\ Len(slots[s].resp.rows) = Cardinality(clientes)

====
